---- MODULE Spec2Model ----
(***************************************************************************)
(* A model of pitaya-rs' NATS RPC client (src/cluster/rpc_client.rs):      *)
(* one NatsClient instance, the transport it talks to, and a set of tasks  *)
(* that invoke connect, close, call, kick_user and push_to_user on it from *)
(* a cooperative executor; and of the metrics helpers of pitaya_core       *)
(* (src/pitaya_core/src/metrics.rs).                                       *)
(***************************************************************************)
EXTENDS Integers, FiniteSets, Sequences, TLC

(***************************************************************************)
(* Bounds of the model.                                                    *)
(***************************************************************************)
\* Number of tasks that invoke operations on the shared client.
MaxTasks == 2
\* Number of transport connections that can be opened in one run.
MaxConnects == 2
\* Number of invocations of the metrics helpers in one run.
MaxHelperCalls == 6
\* Largest number of buckets asked of exponential_buckets.
MaxCount == 5

Tasks == 1..MaxTasks
ConnIds == 1..MaxConnects

(***************************************************************************)
(* Input domains.                                                          *)
(***************************************************************************)
\* Option<nats::Connection>::None; a held connection is its id in ConnIds.
None == 0

UserIds == {"", "u1"}
ServerKinds == {"", "room"}
ServerIds == {"s1"}
\* The server ids of the instances of one kind.
InstanceIds == {"s1", "s2"}
NoServer == [id |-> "", kind |-> ""]
Servers == {[id |-> "s1", kind |-> "room"]}

\* What the subscriber side of an exchange does: it replies, it never
\* replies, or the broker reports a failure that is not a timeout.
Fates == {"reply", "noreply", "fault"}
\* Reply payloads the transport can hand back.
ReplyBytes == {"Response", "ResponseWithError", "KickAnswer", "garbage"}

\* What the subscriber of the topic of an operation answers with: the
\* message the operation expects, or bytes that are no message at all.
Replies(op) ==
    IF op = "call" THEN {"Response", "ResponseWithError", "garbage"}
    ELSE IF op = "kick_user" THEN {"KickAnswer", "garbage"}
    ELSE {"Response", "garbage"}

\* Config::default() uses 10 s for both timeouts; the tests of the client
\* lower request_timeout to 300 ms.  Durations are in units of 100 ms.
DefaultTimeout == 100
TestRequestTimeout == 3
DefaultMaxReconnectionAttempts == 5
DefaultMaxPendingMessages == 100

\* Config { request_timeout: 300 ms, ..Config::default() }
TestConfig ==
    [address |-> "http://localhost:4222",
     connection_timeout |-> DefaultTimeout,
     request_timeout |-> TestRequestTimeout,
     max_reconnection_attempts |-> DefaultMaxReconnectionAttempts,
     max_pending_messages |-> DefaultMaxPendingMessages]

VARIABLES
    config,      \* NatsClient.config : Arc<Config>
    connection,  \* NatsClient.connection : Option<nats::Connection>
    opened,      \* transport: number of connections opened so far
    closes,      \* transport: times close() ran on each connection
    owner,       \* the last connect or close, by the holder of &mut self
    tasks,       \* per task: the operation it invoked last since the last
                 \* connect or close, and how far that has got
    wire,        \* transport: request-reply exchanges in flight
    executor,    \* task whose blocking call occupies the executor thread, or 0
    metrics,     \* metrics helpers: invocations, reporter calls, warnings
    buckets      \* exponential_buckets: its arguments and what it did

vars == <<config, connection, opened, closes, owner, tasks, wire, executor,
          metrics, buckets>>

\* Connections the transport holds open.
Live == {c \in ConnIds : c <= opened /\ closes[c] = 0}


(***************************************************************************)
(* Collaborators outside rpc_client.rs: topic addressing and the codec.    *)
(***************************************************************************)
NoTopic == <<"", "", "">>
\* utils::topic_for_server: the server-call topic, from the kind and the id.
topic_for_server(sv) == <<"servers", sv.kind, sv.id>>
\* utils::user_kick_topic: from the user id and the server kind.
user_kick_topic(uid, kind) == <<"kick", kind, uid>>
\* utils::user_messages_topic: from the user id and the server kind.
user_messages_topic(uid, kind) == <<"push", kind, uid>>

\* The protos::Request a task passes to call.
TheRequest == [type |-> "Request", user |-> "", body |-> "room.join"]
KickMsg(uid) == [type |-> "KickMsg", user |-> uid, body |-> ""]
Push(uid) == [type |-> "Push", user |-> uid, body |-> "data"]
\* utils::encode_proto: the message as a byte buffer.
encode_proto(msg) == [bytes |-> msg]

\* Message::decode as protos::Response: the decoded value, or "error".
decode_Response(bytes) ==
    IF bytes \in {"Response", "ResponseWithError"} THEN bytes ELSE "error"
\* Message::decode as protos::KickAnswer: the decoded value, or "error".
decode_KickAnswer(bytes) ==
    IF bytes = "KickAnswer" THEN bytes ELSE "error"

(***************************************************************************)
(* The pieces of NatsClient's methods that decide what happens.            *)
(***************************************************************************)
\* The options of a transport connection: <<v>> for a value handed to the
\* transport, <<>> for an option left to the transport's own default.
NoOptions ==
    [address |-> <<>>, connection_timeout |-> <<>>,
     max_reconnection_attempts |-> <<>>, max_pending_messages |-> <<>>]

\* connect: nats::connect(&self.config.address); no other field of the
\* Config is handed over.
nats_connect_options(cfg) ==
    [NoOptions EXCEPT !.address = <<cfg.address>>]

\* connect without its assertion.
connect_no_assert(conn) == TRUE

\* connect: assert!(self.connection.is_none()).
connect_assert(conn) == conn = None

\* connect storing a handle whatever nats::connect returned.
connect_store_always(conn, ok, nc) == nc

\* connect: `?` returns before the assignment when nats::connect failed;
\* otherwise self.connection = Some(nc).
connect_store(conn, ok, nc) == IF ok THEN nc ELSE conn

\* close reading the connection without taking it out of the client.
close_keep(conn) == conn

\* close: self.connection.take() leaves None behind.
close_take(conn) == None

\* close calling the transport's close unconditionally.
close_closes_always(conn) == TRUE

\* close: conn.close() runs only inside `if let Some(conn)`.
close_closes(conn) == conn /= None

\* The connection moved out of the client by the operation that uses it.
connection_take(conn) == None

\* call, kick_user and push_to_user read self.connection through &self
\* (as_ref, clone): what the client holds afterwards.
connection_as_ref(conn) == conn

\* call going on without the ok_or(..)? on the connection.
call_unchecked(conn) == "ok"

\* call: self.connection ... .ok_or(Error::NatsConnectionNotOpen)?
call_check(conn) ==
    IF conn = None THEN "NatsConnectionNotOpen" ELSE "ok"

\* kick_user validating the server kind before the user id.
kick_user_check_kind_first(conn, user_id, server_kind) ==
    IF conn = None THEN "NatsConnectionNotOpen"
    ELSE IF server_kind = "" THEN "InvalidServerKind"
    ELSE IF user_id = "" THEN "InvalidUserId"
    ELSE "ok"

\* kick_user: the connection, then the user id, then the server kind.
kick_user_check(conn, user_id, server_kind) ==
    IF conn = None THEN "NatsConnectionNotOpen"
    ELSE IF user_id = "" THEN "InvalidUserId"
    ELSE IF server_kind = "" THEN "InvalidServerKind"
    ELSE "ok"

\* push_to_user validating the identifiers before looking at the
\* connection.
push_to_user_check_ids_first(conn, uid, server_kind) ==
    IF uid = "" THEN "InvalidUserId"
    ELSE IF server_kind = "" THEN "InvalidServerKind"
    ELSE IF conn = None THEN "NatsConnectionNotOpen"
    ELSE "ok"

\* push_to_user without the check of the server kind.
push_to_user_check_no_kind(conn, uid, server_kind) ==
    IF conn = None THEN "NatsConnectionNotOpen"
    ELSE IF uid = "" THEN "InvalidUserId"
    ELSE "ok"

\* push_to_user: the connection, then the uid, then the server kind.
push_to_user_check(conn, uid, server_kind) ==
    IF conn = None THEN "NatsConnectionNotOpen"
    ELSE IF uid = "" THEN "InvalidUserId"
    ELSE IF server_kind = "" THEN "InvalidServerKind"
    ELSE "ok"

\* Every exchange issued on the thread of its caller.
exchange_on_caller(op) == "caller"

\* Where connection.request_timeout runs: call and kick_user wrap it in
\* tokio::task::spawn_blocking, push_to_user calls it directly.
exchange_context(op) ==
    IF op \in {"call", "kick_user"} THEN "worker" ELSE "caller"

\* kick_user addressing the server instance it was given.
kick_user_topic_of_server(server_id, server_kind, user_id) ==
    <<"kick", server_kind, server_id>>

\* kick_user: utils::user_kick_topic(&kick_msg.user_id, &server_kind);
\* _server_id is not used.
kick_user_topic(server_id, server_kind, user_id) ==
    user_kick_topic(user_id, server_kind)

\* push_to_user: utils::user_messages_topic(&push_msg.uid, server_kind);
\* _server_id is not used.
push_to_user_topic(server_id, server_kind, uid) ==
    user_messages_topic(uid, server_kind)

\* The exchange bounded by the connection timeout instead.
request_timeout_wrong_field(cfg) == cfg.connection_timeout

\* The timeout handed to Connection::request_timeout.
request_timeout(cfg) == cfg.request_timeout

\* The error of an exchange with its kind lost.
nats_error_kind_lost(fate) == "NatsOther"

\* connection.request_timeout(..).map_err(|e| Error::Nats(e)): the error of
\* an exchange that got no reply bytes.
nats_error(fate) ==
    IF fate = "noreply" THEN "NatsTimedOut" ELSE "NatsOther"

\* call's closure reporting a Response that carries an error as a failure.
call_closure_error_as_failure(fate, bytes) ==
    IF fate /= "reply" THEN [result |-> nats_error(fate), value |-> "none"]
    ELSE IF decode_Response(bytes) /= "Response"
         THEN [result |-> "NatsOther", value |-> "none"]
         ELSE [result |-> "Ok", value |-> decode_Response(bytes)]

\* call's blocking closure: request, map_err, decode.
call_closure(fate, bytes) ==
    IF fate /= "reply" THEN [result |-> nats_error(fate), value |-> "none"]
    ELSE IF decode_Response(bytes) = "error"
         THEN [result |-> "InvalidProto", value |-> "none"]
         ELSE [result |-> "Ok", value |-> decode_Response(bytes)]

\* kick_user's closure answering with an empty KickAnswer when the reply
\* does not decode.
kick_closure_default_answer(fate, bytes) ==
    IF fate /= "reply" THEN [result |-> nats_error(fate), value |-> "none"]
    ELSE [result |-> "Ok", value |-> "KickAnswer"]

\* kick_user's blocking closure: request, map_err, decode.
kick_closure(fate, bytes) ==
    IF fate /= "reply" THEN [result |-> nats_error(fate), value |-> "none"]
    ELSE IF decode_KickAnswer(bytes) = "error"
         THEN [result |-> "InvalidProto", value |-> "none"]
         ELSE [result |-> "Ok", value |-> decode_KickAnswer(bytes)]

\* push_to_user decoding the reply it got as a Response.
push_outcome_decoded(fate, bytes) ==
    IF fate /= "reply" THEN [result |-> nats_error(fate), value |-> "none"]
    ELSE IF decode_Response(bytes) = "error"
         THEN [result |-> "InvalidProto", value |-> "none"]
         ELSE [result |-> "Ok", value |-> "none"]

\* push_to_user: request, map_err; the reply (_message) is dropped.
push_outcome(fate, bytes) ==
    IF fate /= "reply" THEN [result |-> nats_error(fate), value |-> "none"]
    ELSE [result |-> "Ok", value |-> "none"]

(***************************************************************************)
(* metrics.rs: the helpers record_histogram_duration and add_to_gauge.     *)
(***************************************************************************)
\* What Reporter::observe_hist / Reporter::add_gauge can return.
ReporterResults == {"Ok", "InvalidMetric"}

\* A helper handing the reporter's error on to its caller.
helper_propagates(res) == IF res = "Ok" THEN "returned" ELSE res

\* `if let Err(e) = .. { slog::warn!(..) }` and the end of a fn returning
\* (): how the helper ends, given what the reporter returned.
helper_returns(res) == "returned"

\* `if let Err(e) = ..`: whether the helper logs a warning.
helper_warns(res) == res /= "Ok"

(***************************************************************************)
(* metrics.rs: exponential_buckets.  An f64 is the fraction n/d with d > 0 *)
(* (the values used here and their products are exact in an f64), or NaN.  *)
(***************************************************************************)
F64(n, d) == [n |-> n, d |-> d]
NaN == [n |-> 0, d |-> 0]
Zero == F64(0, 1)
One == F64(1, 1)
is_nan(x) == x.d = 0
\* The comparisons of f64: false whenever an operand is NaN.
f64_gt(a, b) == ~is_nan(a) /\ ~is_nan(b) /\ a.n * b.d > b.n * a.d
f64_lt(a, b) == f64_gt(b, a)
f64_eq(a, b) == ~is_nan(a) /\ ~is_nan(b) /\ a.n * b.d = b.n * a.d
f64_le(a, b) == f64_lt(a, b) \/ f64_eq(a, b)
\* a * b; NaN if an operand is NaN.
f64_mul(a, b) == F64(a.n * b.n, a.d * b.d)

\* The arguments exponential_buckets is given.
Starts == {F64(0 - 1, 1), Zero, F64(1, 2), One, NaN}
Factors == {F64(1, 2), One, F64(2, 1), F64(5, 2), NaN}
Counts == 0..MaxCount

\* for _ in 0..count { buckets.push(next); next *= factor; }
RECURSIVE buckets_loop(_, _, _)
buckets_loop(next, factor, count) ==
    IF count = 0 THEN <<>>
    ELSE <<next>> \o buckets_loop(f64_mul(next, factor), factor, count - 1)

\* exponential_buckets: the three assertions, then the loop.
exponential_buckets(start, factor, count) ==
    IF ~(count >= 1) \/ ~f64_gt(start, Zero) \/ ~f64_gt(factor, One)
    THEN [status |-> "panic", result |-> <<>>]
    ELSE [status |-> "returned",
          result |-> buckets_loop(start, factor, count)]

\* exponential_buckets has not been given anything.
NoBuckets ==
    [status |-> "none", start |-> Zero, factor |-> Zero, count |-> 0,
     result |-> <<>>]

\* No helper has run yet.
NoMetrics ==
    [record_histogram_duration |-> 0, add_to_gauge |-> 0,
     observe_hist |-> 0, add_gauge |-> 0, failed |-> 0, warnings |-> 0,
     last |-> [helper |-> "none", reporter |-> "none", outcome |-> "none"]]

(***************************************************************************)
(* Task records.                                                           *)
(***************************************************************************)
\* A task that has not invoked anything yet.
Idle ==
    [op |-> "idle", pc |-> "done", open |-> FALSE, conn |-> None,
     uid |-> "", kind |-> "", sid |-> "", target |-> NoServer,
     topic |-> NoTopic, fate |-> "none", bytes |-> "", sent |-> 0,
     result |-> "none", value |-> "none"]

RpcOps == {"call", "kick_user", "push_to_user"}
Pending(t) == tasks[t].pc /= "done"
\* connect and close take &mut self: no invocation holding &self is pending.
Exclusive == \A u \in Tasks : ~Pending(u)
\* Code runs on the executor thread only when no blocking call occupies it.
ExecutorFree == executor = 0

\* NatsClient::new: nothing has been asked of the client yet.
NoOp == [op |-> "new", conn |-> None, post |-> None, closed |-> 0,
         result |-> "none", options |-> NoOptions]

Init ==
    /\ config = TestConfig
    /\ connection = None
    /\ opened = 0
    /\ closes = [c \in ConnIds |-> 0]
    /\ owner = NoOp
    /\ tasks = [t \in Tasks |-> Idle]
    /\ wire = {}
    /\ executor = 0
    /\ metrics = NoMetrics
    /\ buckets = NoBuckets


(***************************************************************************)
(* NatsClient::connect and NatsClient::close.                              *)
(***************************************************************************)
\* connect(&mut self).  `reachable` is whether nats::connect can reach the
\* server at config.address.  The record of what the tasks invoked starts
\* afresh: every invocation made before has returned.
connect ==
    /\ Exclusive /\ ExecutorFree
    /\ \E reachable \in BOOLEAN :
        IF ~connect_assert(connection)
        THEN \* the assertion panics before anything else runs
             /\ owner' = [op |-> "connect", conn |-> connection,
                          post |-> connection, closed |-> 0,
                          result |-> "panic", options |-> NoOptions]
             /\ UNCHANGED <<connection, opened, closes>>
        ELSE LET ok == reachable /\ opened < MaxConnects
                 nc == opened + 1
             IN /\ connection' = connect_store(connection, ok, nc)
                /\ opened' = IF ok THEN nc ELSE opened
                /\ owner' = [op |-> "connect", conn |-> connection,
                             post |-> connection', closed |-> 0,
                             result |-> IF ok THEN "Ok"
                                        ELSE "NatsConnectError",
                             options |-> nats_connect_options(config)]
                /\ UNCHANGED closes
    /\ tasks' = [t \in Tasks |-> Idle]
    /\ UNCHANGED <<metrics, buckets, config, wire, executor>>

\* close(&mut self).  The record of what the tasks invoked starts afresh.
close ==
    /\ Exclusive /\ ExecutorFree
    /\ connection' = close_take(connection)
    /\ closes' = IF close_closes(connection) /\ connection \in ConnIds
                 THEN [closes EXCEPT ![connection] = @ + 1]
                 ELSE closes
    /\ owner' = [op |-> "close", conn |-> connection, post |-> connection',
                 closed |-> IF close_closes(connection) THEN 1 ELSE 0,
                 result |-> "Ok", options |-> NoOptions]
    /\ tasks' = [t \in Tasks |-> Idle]
    /\ UNCHANGED <<metrics, buckets, config, opened, wire, executor>>

(***************************************************************************)
(* RpcClient for NatsClient: call, kick_user, push_to_user.                *)
(***************************************************************************)
\* An exchange handed to the transport by task t.
Exchange(t, conn, topic, msg, ctx) ==
    [task |-> t, conn |-> conn, topic |-> topic,
     payload |-> encode_proto(msg),
     timeout |-> request_timeout(config), ctx |-> ctx]

\* The record of an invocation that returned an error before any exchange.
Rejected(op, err) ==
    [Idle EXCEPT !.op = op, !.open = connection /= None, !.result = err]

\* What the other side of an exchange can do, and the bytes of its reply.
Outcomes(op) ==
    {[fate |-> "reply", bytes |-> b] : b \in Replies(op)}
        \cup {[fate |-> f, bytes |-> ""] : f \in Fates \ {"reply"}}

\* call, up to spawn_blocking: the connection is cloned, the topic and the
\* buffer are built, the closure is handed to the blocking pool.
call_to(t, target) ==
    /\ ~Pending(t) /\ ExecutorFree
    /\ tasks' = [tasks EXCEPT ![t] =
            IF call_check(connection) /= "ok"
            THEN [Rejected("call", call_check(connection))
                     EXCEPT !.target = target]
            ELSE [Idle EXCEPT !.op = "call", !.pc = "spawned",
                              !.open = connection /= None,
                              !.conn = connection,
                              !.target = target,
                              !.topic = topic_for_server(target),
                              !.result = "pending"]]
    /\ connection' = connection_as_ref(connection)
    /\ UNCHANGED <<metrics, buckets, config, opened, closes, owner, wire, executor>>

\* call with any of the servers as its target.
call(t) == \E target \in Servers : call_to(t, target)

\* kick_user, up to spawn_blocking: the connection is cloned and the two
\* identifiers are validated; the topic is built inside the closure.
kick_user_with(t, sid, kind, uid) ==
    /\ ~Pending(t) /\ ExecutorFree
    /\ tasks' = [tasks EXCEPT ![t] =
            IF kick_user_check(connection, uid, kind) /= "ok"
            THEN [Rejected("kick_user", kick_user_check(connection, uid, kind))
                     EXCEPT !.sid = sid, !.kind = kind, !.uid = uid]
            ELSE [Idle EXCEPT !.op = "kick_user", !.pc = "spawned",
                              !.open = connection /= None,
                              !.conn = connection,
                              !.sid = sid, !.kind = kind, !.uid = uid,
                              !.result = "pending"]]
    /\ connection' = connection_as_ref(connection)
    /\ UNCHANGED <<metrics, buckets, config, opened, closes, owner, wire, executor>>

kick_user(t) ==
    \E sid \in ServerIds, kind \in ServerKinds, uid \in UserIds :
        kick_user_with(t, sid, kind, uid)

\* The blocking closure of call or kick_user starts on a worker of the
\* blocking pool and issues connection.request_timeout.
WorkerIssue(t) ==
    /\ tasks[t].pc = "spawned"
    /\ LET r == tasks[t]
           topic == IF r.op = "call" THEN r.topic
                    ELSE kick_user_topic(r.sid, r.kind, r.uid)
           msg == IF r.op = "call" THEN TheRequest ELSE KickMsg(r.uid)
           ctx == exchange_context(r.op)
       IN /\ ctx = "caller" => ExecutorFree
          /\ wire' = wire \cup {Exchange(t, r.conn, topic, msg, ctx)}
          /\ tasks' = [tasks EXCEPT ![t].pc = "exchanging",
                                    ![t].topic = topic,
                                    ![t].sent = @ + 1]
          /\ executor' = IF ctx = "caller" THEN t ELSE executor
    /\ UNCHANGED <<metrics, buckets, config, connection, opened, closes, owner>>

\* The exchange of a blocking closure returns (reply bytes, a timeout or a
\* transport failure); the closure maps the error or decodes the reply.
WorkerReturn(t) ==
    /\ tasks[t].pc = "exchanging"
    /\ tasks[t].op \in {"call", "kick_user"}
    /\ \E m \in wire, o \in Outcomes(tasks[t].op) :
        /\ m.task = t
        /\ LET r == IF tasks[t].op = "call"
                    THEN call_closure(o.fate, o.bytes)
                    ELSE kick_closure(o.fate, o.bytes)
           IN tasks' = [tasks EXCEPT ![t].pc = "joining",
                                     ![t].conn = None,
                                     ![t].fate = o.fate,
                                     ![t].bytes = o.bytes,
                                     ![t].result = r.result,
                                     ![t].value = r.value]
        /\ wire' = wire \ {m}
        /\ executor' = IF m.ctx = "caller" THEN 0 ELSE executor
    /\ UNCHANGED <<metrics, buckets, config, connection, opened, closes, owner>>

\* `.await??`: the task is polled again and takes the closure's result.
Join(t) ==
    /\ tasks[t].pc = "joining"
    /\ ExecutorFree
    /\ tasks' = [tasks EXCEPT ![t].pc = "done"]
    /\ UNCHANGED <<metrics, buckets, config, connection, opened, closes, owner, wire, executor>>

\* push_to_user is not async: it validates, builds the topic and calls
\* connection.request_timeout on the thread that invoked it.
push_to_user_with(t, sid, kind, uid) ==
    /\ ~Pending(t) /\ ExecutorFree
    /\ IF push_to_user_check(connection, uid, kind) /= "ok"
       THEN /\ tasks' = [tasks EXCEPT ![t] =
                   [Rejected("push_to_user",
                             push_to_user_check(connection, uid, kind))
                       EXCEPT !.sid = sid, !.kind = kind, !.uid = uid]]
            /\ UNCHANGED <<wire, executor>>
       ELSE LET topic == push_to_user_topic(sid, kind, uid)
            IN /\ tasks' = [tasks EXCEPT ![t] =
                      [Idle EXCEPT !.op = "push_to_user",
                                   !.pc = "exchanging",
                                   !.open = connection /= None,
                                   !.conn = connection,
                                   !.sid = sid, !.kind = kind, !.uid = uid,
                                   !.topic = topic,
                                   !.sent = 1, !.result = "pending"]]
               /\ wire' = wire \cup
                      {Exchange(t, connection, topic, Push(uid),
                                exchange_context("push_to_user"))}
               /\ executor' = IF exchange_context("push_to_user") = "caller"
                              THEN t ELSE executor
    /\ connection' = connection_as_ref(connection)
    /\ UNCHANGED <<metrics, buckets, config, opened, closes, owner>>

push_to_user(t) ==
    \E sid \in ServerIds, kind \in ServerKinds, uid \in UserIds :
        push_to_user_with(t, sid, kind, uid)

\* The exchange of push_to_user returns and the function with it.
PushReturn(t) ==
    /\ tasks[t].pc = "exchanging"
    /\ tasks[t].op = "push_to_user"
    /\ \E m \in wire, o \in Outcomes(tasks[t].op) :
        /\ m.task = t
        /\ LET r == push_outcome(o.fate, o.bytes)
           IN tasks' = [tasks EXCEPT ![t].pc = "done",
                                     ![t].conn = None,
                                     ![t].fate = o.fate,
                                     ![t].bytes = o.bytes,
                                     ![t].result = r.result,
                                     ![t].value = r.value]
        /\ wire' = wire \ {m}
    /\ executor' = 0
    /\ UNCHANGED <<metrics, buckets, config, connection, opened, closes, owner>>

\* The operations that take &self.
RpcNext ==
    \E t \in Tasks :
        \/ call(t)
        \/ kick_user(t)
        \/ push_to_user(t)
        \/ WorkerIssue(t)
        \/ WorkerReturn(t)
        \/ Join(t)
        \/ PushReturn(t)

Next ==
    \/ connect
    \/ close
    \/ RpcNext

Spec == Init /\ [][Next]_vars

\* The client right after NatsClient::new and a connect that succeeded.
Connected ==
    /\ config = TestConfig
    /\ connection = 1
    /\ opened = 1
    /\ closes = [c \in ConnIds |-> 0]
    /\ owner = [op |-> "connect", conn |-> None, post |-> 1, closed |-> 0,
                result |-> "Ok", options |-> nats_connect_options(config)]
    /\ tasks = [t \in Tasks |-> Idle]
    /\ wire = {}
    /\ executor = 0
    /\ metrics = NoMetrics
    /\ buckets = NoBuckets

(***************************************************************************)
(* Scheduling.  The blocking pool runs every closure handed to it, every   *)
(* request_timeout returns (with a reply, or with an error at the latest   *)
(* when its timeout expires), and the executor polls a woken task again.   *)
(* Tasks may take the executor thread with push_to_user again and again in *)
(* between, so Join is fair in the strong sense.                           *)
(*                                                                         *)
(* connect and close take &mut self and so cannot run while an operation   *)
(* on &self is under way: what happens between the invocation of an        *)
(* operation and its return is a behaviour of the Connected client under   *)
(* RpcNext alone.                                                          *)
(***************************************************************************)
Fairness ==
    \A t \in Tasks :
        /\ WF_vars(WorkerIssue(t))
        /\ WF_vars(WorkerReturn(t))
        /\ WF_vars(PushReturn(t))
        /\ SF_vars(Join(t))

LiveSpec == Connected /\ [][RpcNext]_vars /\ Fairness

(***************************************************************************)
(* Many calls at once: every task calls a target of its own on the         *)
(* Connected client, and nothing else goes on.  The blocking pool runs     *)
(* every closure, every request_timeout returns, and the executor polls a  *)
(* woken task again.                                                       *)
(***************************************************************************)
\* The server task t calls: a different one for every task.
TargetOf(t) == [id |-> ToString(t), kind |-> "room"]

\* call by task t, to its own target.
call_distinct(t) == call_to(t, TargetOf(t))

CallNext ==
    \E t \in Tasks :
        \/ call_distinct(t)
        \/ WorkerIssue(t)
        \/ WorkerReturn(t)
        \/ Join(t)

CallFairness ==
    \A t \in Tasks :
        /\ WF_vars(WorkerIssue(t))
        /\ WF_vars(WorkerReturn(t))
        /\ WF_vars(Join(t))

CallSpec == Connected /\ [][CallNext]_vars /\ CallFairness

(***************************************************************************)
(* kick_user and push_to_user given the id of any instance of the kind, on *)
(* a client that is Disconnected or Connected.                             *)
(***************************************************************************)
kick_user_instance(t) ==
    \E sid \in InstanceIds, kind \in ServerKinds, uid \in UserIds :
        kick_user_with(t, sid, kind, uid)

push_to_user_instance(t) ==
    \E sid \in InstanceIds, kind \in ServerKinds, uid \in UserIds :
        push_to_user_with(t, sid, kind, uid)

InstanceNext ==
    \E t \in Tasks :
        \/ kick_user_instance(t)
        \/ push_to_user_instance(t)
        \/ WorkerIssue(t)
        \/ WorkerReturn(t)
        \/ Join(t)
        \/ PushReturn(t)

InstanceSpec == (Init \/ Connected) /\ [][InstanceNext]_vars

(***************************************************************************)
(* The metrics helpers, invoked on a reporter whose calls can fail.        *)
(***************************************************************************)
HelperInvocations ==
    metrics.record_histogram_duration + metrics.add_to_gauge

\* record_histogram_duration: one observe_hist on the reporter.
record_histogram_duration ==
    /\ HelperInvocations < MaxHelperCalls
    /\ \E res \in ReporterResults :
        metrics' = [metrics EXCEPT
            !.record_histogram_duration = @ + 1,
            !.observe_hist = @ + 1,
            !.failed = IF res = "Ok" THEN @ ELSE @ + 1,
            !.warnings = IF helper_warns(res) THEN @ + 1 ELSE @,
            !.last = [helper |-> "record_histogram_duration",
                      reporter |-> res, outcome |-> helper_returns(res)]]
    /\ UNCHANGED <<buckets, config, connection, opened, closes, owner,
                   tasks, wire, executor>>

\* add_to_gauge: one add_gauge on the reporter.
add_to_gauge ==
    /\ HelperInvocations < MaxHelperCalls
    /\ \E res \in ReporterResults :
        metrics' = [metrics EXCEPT
            !.add_to_gauge = @ + 1,
            !.add_gauge = @ + 1,
            !.failed = IF res = "Ok" THEN @ ELSE @ + 1,
            !.warnings = IF helper_warns(res) THEN @ + 1 ELSE @,
            !.last = [helper |-> "add_to_gauge",
                      reporter |-> res, outcome |-> helper_returns(res)]]
    /\ UNCHANGED <<buckets, config, connection, opened, closes, owner,
                   tasks, wire, executor>>

MetricsNext == record_histogram_duration \/ add_to_gauge

MetricsSpec == Init /\ [][MetricsNext]_vars

(***************************************************************************)
(* exponential_buckets, applied to arguments drawn from Starts, Factors    *)
(* and Counts.                                                             *)
(***************************************************************************)
BucketsInit ==
    /\ config = TestConfig
    /\ connection = None
    /\ opened = 0
    /\ closes = [c \in ConnIds |-> 0]
    /\ owner = NoOp
    /\ tasks = [t \in Tasks |-> Idle]
    /\ wire = {}
    /\ executor = 0
    /\ metrics = NoMetrics
    /\ buckets \in {[status |-> "input", start |-> s, factor |-> f,
                      count |-> c, result |-> <<>>] :
                        s \in Starts, f \in Factors, c \in Counts}

\* The call exponential_buckets(start, factor, count).
call_exponential_buckets ==
    /\ buckets.status = "input"
    /\ LET r == exponential_buckets(buckets.start, buckets.factor,
                                    buckets.count)
       IN buckets' = [buckets EXCEPT !.status = r.status,
                                     !.result = r.result]
    /\ UNCHANGED <<metrics, config, connection, opened, closes, owner,
                   tasks, wire, executor>>

BucketsNext == call_exponential_buckets

BucketsSpec == BucketsInit /\ [][BucketsNext]_vars

(***************************************************************************)
(* Properties.                                                             *)
(***************************************************************************)
\* The exchanges task t has in flight at the transport.
InFlight(t) == {m \in wire : m.task = t}

\* The invocation of task t got past its connection and validation checks.
Accepted(t) ==
    /\ tasks[t].op \in RpcOps
    /\ tasks[t].open
    /\ tasks[t].op = "call" \/ (tasks[t].uid /= "" /\ tasks[t].kind /= "")

\* The topic the invocation of task t resolves to.
ResolvedTopic(t) ==
    IF tasks[t].op = "call" THEN topic_for_server(tasks[t].target)
    ELSE IF tasks[t].op = "kick_user"
         THEN user_kick_topic(tasks[t].uid, tasks[t].kind)
         ELSE user_messages_topic(tasks[t].uid, tasks[t].kind)

\* Some connection was closed: close() ran on a Connected client.
WasClosed == \E c \in ConnIds : closes[c] > 0

\* C1: an RPC operation invoked while no connection is held has returned
\* NatsConnectionNotOpen at once: it is not pending, it built no topic, it
\* issued no request, nothing of it is in flight; and no exchange in flight
\* runs without a connection.
C1_NotOpenFailsFast ==
    /\ \A t \in Tasks :
        (tasks[t].op \in RpcOps /\ ~tasks[t].open) =>
            /\ tasks[t].pc = "done"
            /\ tasks[t].result = "NatsConnectionNotOpen"
            /\ tasks[t].sent = 0
            /\ tasks[t].topic = NoTopic
            /\ InFlight(t) = {}
    /\ \A m \in wire : m.conn /= None /\ m.conn = connection

\* C1 witness: after a close of a Connected client, a call, a kick_user or
\* a push_to_user with valid arguments has been turned away.
C1_Witness ==
    /\ owner.op = "close" /\ owner.conn /= None /\ connection = None
    /\ \E t \in Tasks :
        /\ tasks[t].op \in {"kick_user", "push_to_user"}
        /\ tasks[t].uid /= "" /\ tasks[t].kind /= ""
        /\ tasks[t].result = "NatsConnectionNotOpen"
    /\ \E t \in Tasks :
        tasks[t].op = "call" /\ tasks[t].result = "NatsConnectionNotOpen"

\* C2: the transport holds at most one open connection of the client, and
\* it is the one the client holds; a connect on a client that already holds
\* a connection panicked and left that connection in place.
C2_AtMostOneConnection ==
    /\ Cardinality(Live) <= 1
    /\ Live = IF connection = None THEN {} ELSE {connection}
    /\ (owner.op = "connect" /\ owner.conn /= None) =>
            /\ owner.result = "panic"
            /\ owner.post = owner.conn
            /\ connection = owner.conn

\* C2 witness: connect was invoked on a Connected client.
C2_Witness ==
    owner.op = "connect" /\ owner.conn /= None /\ opened = 1

\* C3: close reports no error and leaves the client Disconnected; on a
\* Disconnected client it closes nothing, on a Connected client it closes
\* the held connection, and no connection is ever closed twice.
C3_CloseIdempotent ==
    /\ owner.op = "close" =>
            /\ owner.result = "Ok"
            /\ owner.post = None
            /\ connection = None
            /\ owner.closed = IF owner.conn = None THEN 0 ELSE 1
    /\ \A c \in ConnIds :
        /\ closes[c] <= 1
        /\ closes[c] = 1 <=> (c <= opened /\ c /= connection)

\* C3 witness: a close on a client that an earlier close had disconnected.
C3_Witness ==
    /\ owner.op = "close" /\ owner.conn = None
    /\ WasClosed

\* C4: a connect that could not reach the transport returned an error and
\* stored no connection: the client is Disconnected, the next connect passes
\* the already-connected assertion, and the RPC operations are turned away.
C4_FailedConnectStaysDisconnected ==
    (owner.op = "connect" /\ owner.result = "NatsConnectError") =>
        /\ owner.conn = None
        /\ owner.post = None
        /\ connection = None
        /\ Live = {}
        /\ connect_assert(connection)
        /\ call_check(connection) = "NatsConnectionNotOpen"
        /\ kick_user_check(connection, "u1", "room") = "NatsConnectionNotOpen"
        /\ push_to_user_check(connection, "u1", "room")
               = "NatsConnectionNotOpen"
        /\ \A t \in Tasks :
            tasks[t].op \in RpcOps =>
                /\ tasks[t].pc = "done"
                /\ tasks[t].result = "NatsConnectionNotOpen"

\* C4 witness: after a connect that failed, a call was turned away.
C4_Witness ==
    /\ owner.op = "connect" /\ owner.result = "NatsConnectError"
    /\ \E t \in Tasks :
        tasks[t].op = "call" /\ tasks[t].result = "NatsConnectionNotOpen"

\* C5 as stated: once close() ran on a Connected client, no step brings the
\* client back to Connected.
C5_ClosedIsTerminal ==
    [][WasClosed => connection' = None]_vars

\* C5 amended: close leaves the client Disconnected, and a client that a
\* close disconnected becomes Connected again only by a connect that
\* reaches the transport, which is permitted and opens a new connection,
\* never the closed one.
C5_ClosedUntilReconnect ==
    [][/\ owner'.op = "close" => connection' = None
       /\ (WasClosed /\ connection = None /\ connection' /= None) =>
            /\ owner'.op = "connect"
            /\ owner'.result = "Ok"
            /\ owner'.conn = None
            /\ opened' = opened + 1
            /\ connection' = opened'
            /\ closes'[connection'] = 0]_vars

\* C5 witness: the client is Connected again after close() disconnected it.
C5_Witness ==
    WasClosed /\ connection /= None /\ owner.op = "connect"

\* C6 as stated: kick_user and push_to_user return InvalidUserId whenever
\* the user id is empty and InvalidServerKind whenever the kind is empty.
C6_EmptyIdsRejected ==
    \A t \in Tasks :
        tasks[t].op \in {"kick_user", "push_to_user"} =>
            /\ tasks[t].uid = "" => tasks[t].result = "InvalidUserId"
            /\ tasks[t].kind = "" => tasks[t].result = "InvalidServerKind"

\* C6 amended: on a client that holds a connection, kick_user and
\* push_to_user return InvalidUserId whenever the user id is empty, and
\* InvalidServerKind whenever the kind is empty and the user id is not;
\* with no connection held they return NatsConnectionNotOpen.
C6_EmptyIdsRejectedWhenOpen ==
    \A t \in Tasks :
        tasks[t].op \in {"kick_user", "push_to_user"} =>
            /\ (tasks[t].open /\ tasks[t].uid = "") =>
                    tasks[t].result = "InvalidUserId"
            /\ (tasks[t].open /\ tasks[t].uid /= "" /\ tasks[t].kind = "") =>
                    tasks[t].result = "InvalidServerKind"
            /\ ~tasks[t].open => tasks[t].result = "NatsConnectionNotOpen"

\* C6 witness: on a Connected client one task was refused for an empty user
\* id (with an empty kind as well) and another for an empty kind.
C6_Witness ==
    /\ connection /= None
    /\ \E t \in Tasks :
        /\ tasks[t].op = "kick_user" /\ tasks[t].open
        /\ tasks[t].uid = "" /\ tasks[t].kind = ""
        /\ tasks[t].result = "InvalidUserId"
    /\ \E t \in Tasks :
        /\ tasks[t].op = "push_to_user" /\ tasks[t].open
        /\ tasks[t].uid /= "" /\ tasks[t].kind = ""
        /\ tasks[t].result = "InvalidServerKind"

\* C7: a kick_user or push_to_user with an empty user id or an empty kind
\* has returned without building a topic and without issuing a request, and
\* no exchange in flight is addressed with an empty identifier.
C7_RejectedBeforeIO ==
    /\ \A t \in Tasks :
        (/\ tasks[t].op \in {"kick_user", "push_to_user"}
         /\ (tasks[t].uid = "" \/ tasks[t].kind = "")) =>
            /\ tasks[t].pc = "done"
            /\ tasks[t].result /= "Ok"
            /\ tasks[t].topic = NoTopic
            /\ tasks[t].sent = 0
            /\ InFlight(t) = {}
    /\ \A m \in wire : m.topic[2] /= "" /\ m.topic[3] /= ""

\* C7 witness: a Connected client refused a push_to_user for its empty kind
\* while the exchange of another invocation is in flight.
C7_Witness ==
    /\ \E t \in Tasks :
        /\ tasks[t].op = "push_to_user" /\ tasks[t].open
        /\ tasks[t].kind = "" /\ tasks[t].result = "InvalidServerKind"
    /\ wire /= {}

\* C8: an invocation that got past its checks issues one request and no
\* more: none before its closure runs, one in flight while it exchanges (on
\* the resolved topic, on the held connection, with config.request_timeout),
\* none in flight afterwards; a timeout or transport failure is what the
\* caller gets.
C8_OneExchange ==
    \A t \in Tasks :
        Accepted(t) =>
            /\ tasks[t].pc = "spawned" =>
                    tasks[t].sent = 0 /\ InFlight(t) = {}
            /\ tasks[t].pc = "exchanging" =>
                    /\ tasks[t].sent = 1
                    /\ Cardinality(InFlight(t)) = 1
                    /\ \A m \in InFlight(t) :
                        /\ m.topic = ResolvedTopic(t)
                        /\ m.timeout = config.request_timeout
                        /\ m.conn = connection
            /\ tasks[t].pc \in {"joining", "done"} =>
                    /\ tasks[t].sent = 1
                    /\ InFlight(t) = {}
                    /\ tasks[t].topic = ResolvedTopic(t)
                    /\ tasks[t].fate = "noreply" =>
                            tasks[t].result = "NatsTimedOut"
                    /\ tasks[t].fate = "fault" =>
                            tasks[t].result = "NatsOther"

\* C8 witness: a call and a push_to_user have each returned a timeout after
\* one request.
C8_Witness ==
    /\ \E t \in Tasks :
        /\ tasks[t].op = "call" /\ tasks[t].pc = "done"
        /\ tasks[t].result = "NatsTimedOut" /\ tasks[t].sent = 1
    /\ \E t \in Tasks :
        /\ tasks[t].op = "push_to_user" /\ tasks[t].pc = "done"
        /\ tasks[t].result = "NatsTimedOut" /\ tasks[t].sent = 1

\* C9: every call that is under way completes, and the result of a call
\* whose target did not reply is the transport error TimedOut, with no
\* response value.
C9_CallTimesOut ==
    /\ \A t \in Tasks :
        (tasks[t].op = "call" /\ Pending(t))
            ~> (tasks[t].op = "call" /\ tasks[t].pc = "done")
    /\ [](\A t \in Tasks :
            (tasks[t].op = "call" /\ tasks[t].fate = "noreply") =>
                /\ tasks[t].result = "NatsTimedOut"
                /\ tasks[t].value = "none")

\* C9 witness: a call whose target did not reply has completed, after a
\* push_to_user of another task had occupied the executor thread.
C9_Witness ==
    \E t, u \in Tasks :
        /\ tasks[t].op = "call" /\ tasks[t].pc = "done"
        /\ tasks[t].fate = "noreply" /\ tasks[t].result = "NatsTimedOut"
        /\ tasks[u].op = "push_to_user" /\ tasks[u].sent = 1

\* C10 as stated: every exchange in flight runs on a worker of the blocking
\* pool and none occupies the executor thread.
C10_ExchangesOnWorkers ==
    /\ \A m \in wire : m.ctx = "worker"
    /\ executor = 0

\* The results a call that got past its connection check can complete with.
CallResults == {"Ok", "NatsTimedOut", "NatsOther", "InvalidProto"}

\* The next step of the call of task t can be taken.
CanProceed(t) ==
    /\ tasks[t].pc = "spawned" => ENABLED WorkerIssue(t)
    /\ tasks[t].pc = "exchanging" => ENABLED WorkerReturn(t)
    /\ tasks[t].pc = "joining" => ENABLED Join(t)

\* C11: of the calls that run at once to distinct targets on the shared
\* Connected client, every one completes with a result of its own exchange,
\* and at every moment every call under way can take its next step whatever
\* the state of the other calls: none waits for another to complete.  Each
\* has its own exchange, on its own topic.
C11_CallsIndependent ==
    /\ \A t \in Tasks :
        (tasks[t].op = "call" /\ Pending(t))
            ~> (/\ tasks[t].op = "call" /\ tasks[t].pc = "done"
                /\ tasks[t].result \in CallResults)
    /\ [](\A t \in Tasks :
            (tasks[t].op = "call" /\ Pending(t)) =>
                /\ CanProceed(t)
                /\ \A m \in wire :
                    (m.topic = topic_for_server(tasks[t].target)) <=>
                        (m.task = t))

\* C11 witness: one call has completed with a response while the call of
\* another task, to another target, still has its exchange in flight.
C11_Witness ==
    \E t, u \in Tasks :
        /\ tasks[t].op = "call" /\ tasks[t].pc = "done"
        /\ tasks[t].result = "Ok"
        /\ tasks[u].op = "call" /\ tasks[u].pc = "exchanging"
        /\ tasks[u].target /= tasks[t].target
        /\ InFlight(u) /= {}

\* C12: a step of call, kick_user or push_to_user (its invocation, its
\* exchange, its return, with whatever outcome) leaves the held connection,
\* the Config and the transport's connections as they were; the held
\* connection changes only in a step of connect or close.
C12_RpcLeavesClientState ==
    [][/\ (\E t \in Tasks :
                tasks'[t] /= tasks[t] /\ tasks'[t].op \in RpcOps) =>
            /\ connection' = connection
            /\ config' = config
            /\ opened' = opened
            /\ closes' = closes
            /\ owner' = owner
       /\ (connection' /= connection \/ config' /= config) =>
            /\ config' = config
            /\ owner'.op \in {"connect", "close"}
            /\ owner'.conn = connection
            /\ owner'.post = connection'
            /\ \A t \in Tasks : tasks'[t] = Idle]_vars

\* C12 witness: on a client that still holds the connection it opened, one
\* operation has returned a timeout and another a success.
C12_Witness ==
    /\ connection /= None /\ Live = {connection}
    /\ owner.op = "connect" /\ owner.post = connection
    /\ config = TestConfig
    /\ \E t, u \in Tasks :
        /\ tasks[t].op = "call" /\ tasks[t].pc = "done"
        /\ tasks[t].result = "NatsTimedOut"
        /\ tasks[u].op \in {"kick_user", "push_to_user"}
        /\ tasks[u].pc = "done" /\ tasks[u].result = "Ok"

\* The closure of the invocation of task t has returned.
Returned(t) == tasks[t].pc \in {"joining", "done"} /\ tasks[t].sent = 1

\* C13: a call whose exchange returned bytes that decode to a Response with
\* its error field populated has the result Ok, and the value it returns is
\* that Response, error included.
C13_ErrorResponseIsOk ==
    \A t \in Tasks :
        (/\ tasks[t].op = "call" /\ Returned(t)
         /\ tasks[t].fate = "reply"
         /\ decode_Response(tasks[t].bytes) = "ResponseWithError") =>
            /\ tasks[t].result = "Ok"
            /\ tasks[t].value = "ResponseWithError"

\* C13 witness: a call has returned to its caller a Response that carries
\* an error.
C13_Witness ==
    \E t \in Tasks :
        /\ tasks[t].op = "call" /\ tasks[t].pc = "done"
        /\ tasks[t].bytes = "ResponseWithError"
        /\ tasks[t].result = "Ok"

\* C14: a call or kick_user whose exchange returned bytes that do not
\* decode as the message it expects has the decode error as its result and
\* no value; and every value that is returned is what the reply bytes
\* decode to.
C14_UndecodableReplyFails ==
    \A t \in Tasks :
        (tasks[t].op \in {"call", "kick_user"} /\ Returned(t)) =>
            LET decoded == IF tasks[t].op = "call"
                           THEN decode_Response(tasks[t].bytes)
                           ELSE decode_KickAnswer(tasks[t].bytes)
            IN /\ (tasks[t].fate = "reply" /\ decoded = "error") =>
                    /\ tasks[t].result = "InvalidProto"
                    /\ tasks[t].value = "none"
               /\ tasks[t].result = "Ok" =>
                    /\ tasks[t].fate = "reply"
                    /\ decoded /= "error"
                    /\ tasks[t].value = decoded

\* C14 witness: a call and a kick_user have each returned the decode error
\* for a reply that was not the message they expect.
C14_Witness ==
    /\ \E t \in Tasks :
        /\ tasks[t].op = "call" /\ tasks[t].pc = "done"
        /\ tasks[t].bytes = "garbage" /\ tasks[t].result = "InvalidProto"
    /\ \E t \in Tasks :
        /\ tasks[t].op = "kick_user" /\ tasks[t].pc = "done"
        /\ tasks[t].bytes = "garbage" /\ tasks[t].result = "InvalidProto"

\* C15: a push_to_user that got past its checks returns Ok exactly when its
\* exchange returned a reply, whatever the bytes of the reply; it returns
\* nothing of the reply; a timeout and a transport failure are returned as
\* the transport's error.
C15_PushOkIffReply ==
    \A t \in Tasks :
        (tasks[t].op = "push_to_user" /\ Accepted(t)
                /\ tasks[t].pc = "done") =>
            /\ tasks[t].result = "Ok" <=> tasks[t].fate = "reply"
            /\ tasks[t].value = "none"
            /\ tasks[t].fate = "noreply" => tasks[t].result = "NatsTimedOut"
            /\ tasks[t].fate = "fault" => tasks[t].result = "NatsOther"
            /\ tasks[t].fate \in Fates

\* C15 witness: one push_to_user has returned Ok on a reply that is no
\* message, another has returned the timeout of its exchange.
C15_Witness ==
    /\ \E t \in Tasks :
        /\ tasks[t].op = "push_to_user" /\ tasks[t].pc = "done"
        /\ tasks[t].bytes = "garbage" /\ tasks[t].result = "Ok"
    /\ \E t \in Tasks :
        /\ tasks[t].op = "push_to_user" /\ tasks[t].pc = "done"
        /\ tasks[t].fate = "noreply" /\ tasks[t].result = "NatsTimedOut"

\* The invocations of tasks t and u are of the same operation on the same
\* client state with the same user id and kind, and differ in the server id.
DifferInServerId(t, u) ==
    /\ tasks[t].op \in {"kick_user", "push_to_user"}
    /\ tasks[u].op = tasks[t].op
    /\ tasks[u].open = tasks[t].open
    /\ tasks[u].uid = tasks[t].uid
    /\ tasks[u].kind = tasks[t].kind
    /\ tasks[u].sid /= tasks[t].sid

\* The message kick_user or push_to_user of task t sends.
MessageOf(t) ==
    IF tasks[t].op = "kick_user" THEN KickMsg(tasks[t].uid)
    ELSE Push(tasks[t].uid)

\* C16: the topic and the bytes of every exchange of kick_user and
\* push_to_user are those given by the user id and the server kind alone;
\* two invocations that differ only in the server id have the same topic,
\* the same bytes in flight, the same error when they are turned away, and
\* the same result for the same answer of the transport.
C16_ServerIdHasNoEffect ==
    /\ \A t \in Tasks :
        (tasks[t].op \in {"kick_user", "push_to_user"}
                /\ tasks[t].sent = 1) =>
            /\ tasks[t].topic = ResolvedTopic(t)
            /\ \A m \in InFlight(t) :
                /\ m.topic = ResolvedTopic(t)
                /\ m.payload = encode_proto(MessageOf(t))
    /\ \A t, u \in Tasks :
        DifferInServerId(t, u) =>
            /\ tasks[t].sent = tasks[u].sent =>
                    tasks[t].topic = tasks[u].topic
            /\ \A m \in InFlight(t), n \in InFlight(u) :
                /\ m.topic = n.topic
                /\ m.payload = n.payload
                /\ m.timeout = n.timeout
            /\ (/\ tasks[t].pc = "done" /\ tasks[u].pc = "done"
                /\ tasks[t].fate = tasks[u].fate
                /\ tasks[t].bytes = tasks[u].bytes) =>
                    /\ tasks[t].result = tasks[u].result
                    /\ tasks[t].value = tasks[u].value
                    /\ tasks[t].sent = tasks[u].sent

\* C16 witness: two kick_user invocations with the same user id and kind
\* and different server ids have both been answered.
C16_Witness ==
    \E t, u \in Tasks :
        /\ DifferInServerId(t, u)
        /\ tasks[t].op = "kick_user"
        /\ tasks[t].pc = "done" /\ tasks[u].pc = "done"
        /\ tasks[t].result = "Ok" /\ tasks[u].result = "Ok"

\* C17 as stated: the connection a connect opened was given the Config's
\* max_reconnection_attempts, max_pending_messages and connection_timeout.
C17_ConfigPassedToTransport ==
    (owner.op = "connect" /\ owner.result = "Ok") =>
        /\ owner.options.address = <<config.address>>
        /\ owner.options.max_reconnection_attempts
                = <<config.max_reconnection_attempts>>
        /\ owner.options.max_pending_messages
                = <<config.max_pending_messages>>
        /\ owner.options.connection_timeout = <<config.connection_timeout>>

\* C18: the two helpers return to their caller whatever the reporter
\* returned, with no error and no panic; each invocation made one call of
\* the reporter (observe_hist for record_histogram_duration, add_gauge for
\* add_to_gauge); a warning was logged for every call that failed, and for
\* no other.
C18_HelpersAlwaysReturn ==
    /\ metrics.last.outcome \in {"none", "returned"}
    /\ metrics.last.helper /= "none" => metrics.last.outcome = "returned"
    /\ metrics.observe_hist = metrics.record_histogram_duration
    /\ metrics.add_gauge = metrics.add_to_gauge
    /\ metrics.warnings = metrics.failed
    /\ metrics.failed <= HelperInvocations

\* C18 witness: both helpers have run, and the last invocation returned
\* after its reporter call had failed.
C18_Witness ==
    /\ metrics.record_histogram_duration > 0
    /\ metrics.add_to_gauge > 0
    /\ metrics.last.reporter = "InvalidMetric"
    /\ metrics.last.outcome = "returned"
    /\ metrics.warnings > 0

\* C19 as stated: exponential_buckets panics exactly when count is zero,
\* start is less than or equal to zero or factor is smaller than one; for
\* all other arguments it returns count buckets, the first equal to start
\* and every later one equal to the one before it times factor.
C19_PanicsExactlyWhenDocumented ==
    buckets.status \in {"panic", "returned"} =>
        /\ buckets.status = "panic" <=>
                \/ buckets.count = 0
                \/ f64_le(buckets.start, Zero)
                \/ f64_lt(buckets.factor, One)
        /\ buckets.status = "returned" =>
                /\ Len(buckets.result) = buckets.count
                /\ f64_eq(buckets.result[1], buckets.start)
                /\ \A i \in 2..buckets.count :
                        f64_eq(buckets.result[i],
                               f64_mul(buckets.result[i - 1], buckets.factor))

\* The failure conditions in the order of their precedence, each with the
\* error it stands for and whether it holds of the invocation of task t.
Precedence(t) ==
    <<[error |-> "NatsConnectionNotOpen", holds |-> ~tasks[t].open],
      [error |-> "InvalidUserId", holds |-> tasks[t].uid = ""],
      [error |-> "InvalidServerKind", holds |-> tasks[t].kind = ""]>>

Holds(condition) == condition.holds

\* C20: a kick_user or push_to_user of which one or more failure
\* conditions hold has returned one error, the first in the order
\* NatsConnectionNotOpen, InvalidUserId, InvalidServerKind whose condition
\* holds, and has done nothing else; one of which none holds has returned
\* none of the three.
C20_ErrorPrecedence ==
    \A t \in Tasks :
        tasks[t].op \in {"kick_user", "push_to_user"} =>
            LET applicable == SelectSeq(Precedence(t), Holds)
            IN IF applicable /= <<>>
               THEN /\ tasks[t].pc = "done"
                    /\ tasks[t].result = Head(applicable).error
                    /\ tasks[t].value = "none"
                    /\ tasks[t].sent = 0
               ELSE tasks[t].result \notin
                        {Precedence(t)[i].error : i \in 1..3}

\* C20 witness: on a client with no connection, a kick_user for which all
\* three conditions hold and a push_to_user with an empty user id have
\* reported the missing connection.
C20_Witness ==
    /\ connection = None
    /\ \E t \in Tasks :
        /\ tasks[t].op = "kick_user" /\ ~tasks[t].open
        /\ tasks[t].uid = "" /\ tasks[t].kind = ""
        /\ tasks[t].result = "NatsConnectionNotOpen"
    /\ \E t \in Tasks :
        /\ tasks[t].op = "push_to_user" /\ ~tasks[t].open
        /\ tasks[t].uid = "" /\ tasks[t].kind /= ""
        /\ tasks[t].result = "NatsConnectionNotOpen"

====
